---- MODULE Spec2Model ----
(***************************************************************************)
(* simple-chess backend: the matchmaker (wsHandler and the global `game`), *)
(* ChessGame.Join, the relay goroutine playChess and the reader goroutine  *)
(* forwardFromWebsocketToChannel, as a state machine.                      *)
(***************************************************************************)
EXTENDS Integers, Sequences, FiniteSets, TLC

\* ---------------------------------------------------------------- bounds
MaxConns == 4          \* wsHandler invocations (incoming HTTP requests)
MaxReads == 3          \* ReadJSON calls that return, over all connections
MaxUpgradeFail == 1    \* invocations whose upgrader.Upgrade fails
MaxRacers == 3         \* wsHandler invocations served concurrently

Conns == 1..MaxConns
Nil == 0               \* the nil pointer (*websocket.Conn, *ChessGame)
Sides == {"white", "black"}

\* ------------------------------------------------------------- messages
\* Message: the Go struct; a field absent from the JSON object stays "".
Message(t, c, f, to, p) ==
    [Type |-> t, Color |-> c, From |-> f, To |-> to, Promotion |-> p]

\* The frame of a broken read: ReadJSON returns an error for it.
BadFrame == [bad |-> "frame"]

\* JSON objects a client can send (keys are the json tags of Message).
WireMove ==
    [type |-> "move", color |-> "white", from |-> "e2", to |-> "e4",
     promotion |-> "q"]
WireMoveNoTo == [type |-> "move", from |-> "e7", promotion |-> "q"]
WireStart == [type |-> "start", color |-> "white"]
WireError == [type |-> "error"]
ClientFrames == {WireMove, WireMoveNoTo, WireStart, WireError, BadFrame}

Field(w, k) == IF k \in DOMAIN w THEN w[k] ELSE ""

\* ws.ReadJSON(&message): err for a frame that is no JSON object, else the
\* struct with the object's known keys and "" for the missing ones.
ReadJSONErr(w) == "bad" \in DOMAIN w
ReadJSON(w) ==
    Message(Field(w, "type"), Field(w, "color"), Field(w, "from"),
            Field(w, "to"), Field(w, "promotion"))

\* ws.WriteJSON(message): the struct has no omitempty, every key is written.
WriteJSON(m) ==
    [type |-> m.Type, color |-> m.Color, from |-> m.From, to |-> m.To,
     promotion |-> m.Promotion]

NoMessage == Message("", "", "", "", "")
ErrorMessage == Message("error", "", "", "", "")
StartMessage(color) == Message("start", color, "", "", "")

\* ---------------------------------------------------------------- state
VARIABLES
    arrived,    \* number of wsHandler invocations started so far
    nFail,      \* number of failed upgrades so far
    hpc,        \* hpc[h]: position of invocation h in wsHandler / Join
    hws,        \* hws[h]: its `ws` (Nil after a failed upgrade)
    hg,         \* hg[h]: the *ChessGame it read from the global `game`
    jret,       \* jret[h]: what its Join call returned
    game,       \* the global `var game *ChessGame` (index into games, or Nil)
    games,      \* the ChessGame objects allocated so far
    rpc,        \* rpc[h]: position of the playChess goroutine started by h
    rws,        \* rws[h]: its whiteWebsocket / blackWebsocket arguments
    turnWhite,  \* turnWhite[h]: its local turnWhite
    fpc,        \* fpc[h][s]: position of the reader goroutine for side s
    fws,        \* fws[h][s]: its ws argument
    fmsg,       \* fmsg[h][s]: the message it is sending on its channel
    closed,     \* connections on which ws.Close() has run
    written,    \* written[c]: the JSON objects WriteJSON sent on c, in order
    fwd,        \* fwd[h]: <<sender side, message>> of each relayed message
    nReads,     \* number of client frames read so far
    recvd,      \* recvd[h][s]: the messages reader s of h decoded, in order
    handled,    \* handled[h][s]: those of them the select received, in order
    logging,    \* whether the histories recvd and handled are recorded
    broken,     \* connections whose channel has broken (the peer is gone)
    crashed     \* an unrecovered panic has ended the process

hvars == <<arrived, nFail, hpc, hws, hg, jret, game, games>>
rvars == <<rpc, rws, turnWhite, written, fwd, handled>>
fvars == <<fpc, fws, fmsg, closed, nReads, recvd, logging, broken>>
vars == <<hvars, rvars, fvars, crashed>>

NoSession == [white |-> Nil, black |-> Nil]

Start(log) ==
    /\ logging = log
    /\ arrived = 0
    /\ nFail = 0
    /\ hpc = [h \in Conns |-> "idle"]
    /\ hws = [h \in Conns |-> Nil]
    /\ hg = [h \in Conns |-> Nil]
    /\ jret = [h \in Conns |-> "none"]
    /\ game = Nil
    /\ games = <<>>
    /\ rpc = [h \in Conns |-> "none"]
    /\ rws = [h \in Conns |-> NoSession]
    /\ turnWhite = [h \in Conns |-> TRUE]
    /\ fpc = [h \in Conns |-> [s \in Sides |-> "none"]]
    /\ fws = [h \in Conns |-> [s \in Sides |-> Nil]]
    /\ fmsg = [h \in Conns |-> [s \in Sides |-> NoMessage]]
    /\ closed = {}
    /\ broken = {}
    /\ written = [c \in Conns |-> <<>>]
    /\ fwd = [h \in Conns |-> <<>>]
    /\ nReads = 0
    /\ recvd = [h \in Conns |-> [s \in Sides |-> <<>>]]
    /\ handled = [h \in Conns |-> [s \in Sides |-> <<>>]]
    /\ crashed = FALSE

Init == Start(FALSE)

\* The same, with the histories recorded.
InitLogged == Start(TRUE)

\* ------------------------------------------------------------ wsHandler
HandlerEnded(h) == hpc[h] \in {"done", "panicked"}

\* ws, err := upgrader.Upgrade(w, r, nil); an error is logged and the
\* handler goes on with ws = nil.
Upgrade(h, ok) ==
    /\ ~crashed
    /\ h = arrived + 1
    /\ hpc[h] = "idle"
    /\ ok \/ nFail < MaxUpgradeFail
    /\ arrived' = h
    /\ nFail' = IF ok THEN nFail ELSE nFail + 1
    /\ hws' = [hws EXCEPT ![h] = IF ok THEN h ELSE Nil]
    /\ hpc' = [hpc EXCEPT ![h] = "check"]
    /\ UNCHANGED <<hg, jret, game, games, rvars, fvars, crashed>>

InFlight == {h \in Conns : hpc[h] # "idle" /\ ~HandlerEnded(h)}

\* The same, for requests served one after another.
UpgradeSeq(h, ok) ==
    /\ InFlight = {}
    /\ Upgrade(h, ok)

\* The same, for requests served concurrently.
UpgradeConc(h, ok) ==
    /\ h <= MaxRacers
    /\ Upgrade(h, ok)

\* if game == nil
CheckGame(h) ==
    /\ ~crashed
    /\ hpc[h] = "check"
    /\ hg' = [hg EXCEPT ![h] = game]
    /\ hpc' = [hpc EXCEPT ![h] = IF game = Nil THEN "new" ELSE "call"]
    /\ UNCHANGED <<arrived, nFail, hws, jret, game, games, rvars, fvars, crashed>>

\* game = NewChessGame(ws)
NewChessGame(ws) == [white |-> ws, black |-> Nil]

NewGame(h) ==
    /\ ~crashed
    /\ hpc[h] = "new"
    /\ games' = Append(games, NewChessGame(hws[h]))
    /\ game' = Len(games) + 1
    /\ hpc' = [hpc EXCEPT ![h] = "done"]
    /\ UNCHANGED <<arrived, nFail, hws, hg, jret, rvars, fvars, crashed>>

\* game.Join(ws): the receiver is the global as loaded for the call. The
\* unsynchronised global may be loaded again or the value of the nil check
\* reused; a nil receiver panics at game.blackWebsocket and net/http
\* recovers the handler's panic.
CallJoin(h, reload) ==
    /\ ~crashed
    /\ hpc[h] = "call"
    /\ LET g == IF reload THEN game ELSE hg[h] IN
        /\ hg' = [hg EXCEPT ![h] = g]
        /\ hpc' = [hpc EXCEPT ![h] = IF g = Nil THEN "panicked" ELSE "joinCheck"]
    /\ UNCHANGED <<arrived, nFail, hws, jret, game, games, rvars, fvars, crashed>>

\* (mutant) the test of the black slot is missing: Join always goes on.
JoinCheckNoGuard(h) ==
    /\ ~crashed
    /\ hpc[h] = "joinCheck"
    /\ hpc' = [hpc EXCEPT ![h] = "joinAssign"]
    /\ UNCHANGED <<arrived, nFail, hws, hg, jret, game, games, rvars, fvars, crashed>>

\* if game.blackWebsocket != nil { return ErrCannotJoinStartedGame }
JoinCheck(h) ==
    /\ ~crashed
    /\ hpc[h] = "joinCheck"
    /\ IF games[hg[h]].black # Nil
       THEN /\ jret' = [jret EXCEPT ![h] = "ErrCannotJoinStartedGame"]
            /\ hpc' = [hpc EXCEPT ![h] = "clear"]
       ELSE /\ jret' = jret
            /\ hpc' = [hpc EXCEPT ![h] = "joinAssign"]
    /\ UNCHANGED <<arrived, nFail, hws, hg, game, games, rvars, fvars, crashed>>

\* game.blackWebsocket = ws
JoinAssign(h) ==
    /\ ~crashed
    /\ hpc[h] = "joinAssign"
    /\ games' = [games EXCEPT ![hg[h]].black = hws[h]]
    /\ hpc' = [hpc EXCEPT ![h] = "goPlay"]
    /\ UNCHANGED <<arrived, nFail, hws, hg, jret, game, rvars, fvars, crashed>>

\* go playChess(game.whiteWebsocket, game.blackWebsocket, whiteChannel, blackChannel)
GoPlayChess(h) ==
    /\ ~crashed
    /\ hpc[h] = "goPlay"
    /\ rpc' = [rpc EXCEPT ![h] = "start"]
    /\ rws' = [rws EXCEPT ![h] = games[hg[h]]]
    /\ turnWhite' = [turnWhite EXCEPT ![h] = TRUE]
    /\ hpc' = [hpc EXCEPT ![h] = "goWhite"]
    /\ UNCHANGED <<arrived, nFail, hws, hg, jret, game, games, written, fwd,
                   handled, fvars, crashed>>

\* go forwardFromWebsocketToChannel(game.whiteWebsocket, whiteChannel)
GoWhiteReader(h) ==
    /\ ~crashed
    /\ hpc[h] = "goWhite"
    /\ fpc' = [fpc EXCEPT ![h]["white"] = "read"]
    /\ fws' = [fws EXCEPT ![h]["white"] = games[hg[h]].white]
    /\ hpc' = [hpc EXCEPT ![h] = "goBlack"]
    /\ UNCHANGED <<arrived, nFail, hws, hg, jret, game, games, rvars, fmsg,
                   closed, nReads, recvd, logging, broken, crashed>>

\* go forwardFromWebsocketToChannel(game.blackWebsocket, blackChannel); return nil
GoBlackReader(h) ==
    /\ ~crashed
    /\ hpc[h] = "goBlack"
    /\ fpc' = [fpc EXCEPT ![h]["black"] = "read"]
    /\ fws' = [fws EXCEPT ![h]["black"] = games[hg[h]].black]
    /\ jret' = [jret EXCEPT ![h] = "nil"]
    /\ hpc' = [hpc EXCEPT ![h] = "clear"]
    /\ UNCHANGED <<arrived, nFail, hws, hg, game, games, rvars, fmsg,
                   closed, nReads, recvd, logging, broken, crashed>>

\* (mutant) the open-session record is left as it is after the join.
ClearGameKeeps(h) ==
    /\ ~crashed
    /\ hpc[h] = "clear"
    /\ hpc' = [hpc EXCEPT ![h] = "done"]
    /\ UNCHANGED <<arrived, nFail, hws, hg, jret, game, games, rvars, fvars, crashed>>

\* game = nil
ClearGame(h) ==
    /\ ~crashed
    /\ hpc[h] = "clear"
    /\ game' = Nil
    /\ hpc' = [hpc EXCEPT ![h] = "done"]
    /\ UNCHANGED <<arrived, nFail, hws, hg, jret, games, rvars, fvars, crashed>>

\* ------------------------------------------------------------ playChess
Other(s) == IF s = "white" THEN "black" ELSE "white"

\* (mutant) the promotion field is blanked in what is written.
SentNoPromotion(c, m) ==
    [written EXCEPT ![c] = Append(@, [WriteJSON(m) EXCEPT !.promotion = ""])]

\* c.WriteJSON(m) as seen on the wire of connection c.
Sent(c, m) == [written EXCEPT ![c] = Append(@, WriteJSON(m))]

\* (mutant) the first connection is told it plays black.
StartWhiteWrongColor(h) ==
    /\ ~crashed
    /\ rpc[h] = "start"
    /\ rws[h].white # Nil
    /\ written' = Sent(rws[h].white, StartMessage("black"))
    /\ rpc' = [rpc EXCEPT ![h] = "start2"]
    /\ UNCHANGED <<hvars, rws, turnWhite, fwd, handled, fvars, crashed>>

\* turnWhite := true; whiteWebsocket.WriteJSON(Message{Type: "start", Color: "white"})
\* (a method call on a nil *websocket.Conn panics in the goroutine: the process ends)
StartWhite(h) ==
    /\ ~crashed
    /\ rpc[h] = "start"
    /\ IF rws[h].white = Nil
       THEN /\ crashed' = TRUE
            /\ UNCHANGED <<rpc, written>>
       ELSE /\ written' = Sent(rws[h].white, StartMessage("white"))
            /\ rpc' = [rpc EXCEPT ![h] = "start2"]
            /\ crashed' = crashed
    /\ UNCHANGED <<hvars, rws, turnWhite, fwd, handled, fvars>>

\* blackWebsocket.WriteJSON(Message{Type: "start", Color: "black"})
StartBlack(h) ==
    /\ ~crashed
    /\ rpc[h] = "start2"
    /\ IF rws[h].black = Nil
       THEN /\ crashed' = TRUE
            /\ UNCHANGED <<rpc, written>>
       ELSE /\ written' = Sent(rws[h].black, StartMessage("black"))
            /\ rpc' = [rpc EXCEPT ![h] = "loop"]
            /\ crashed' = crashed
    /\ UNCHANGED <<hvars, rws, turnWhite, fwd, handled, fvars>>

\* The side whose message the loop acts on.
HoldsTurn(h, s) == (s = "white") = turnWhite[h]

\* (mutant) the turn test dropped: every message that is no error is relayed.
RelayDecisionNoTurn(h, s, message) ==
    IF message.Type = "error" THEN "return" ELSE "forward"

\* (mutant) the error signal is handled like any other message.
RelayDecisionNoReturn(h, s, message) ==
    IF HoldsTurn(h, s) THEN "forward" ELSE "drop"

\* What one case of the select does with `message` received from side s:
\* "return", "forward" (WriteJSON to the other side, flip turnWhite) or "drop".
RelayDecision(h, s, message) ==
    IF message.Type = "error" THEN "return"
    ELSE IF HoldsTurn(h, s) THEN "forward"
    ELSE "drop"

\* (mutant) the return of one relay loop ends every running relay loop.
RelayRecvEndsAll(h, s) ==
    /\ ~crashed
    /\ rpc[h] = "loop"
    /\ fpc[h][s] \in {"send", "sendErr"}
    /\ LET message == fmsg[h][s]
           d == RelayDecision(h, s, message)
       IN  /\ rpc' = IF d = "return"
                     THEN [j \in Conns |-> IF rpc[j] = "loop" THEN "done" ELSE rpc[j]]
                     ELSE rpc
           /\ written' = IF d = "forward"
                         THEN Sent(rws[h][Other(s)], message) ELSE written
           /\ turnWhite' = [turnWhite EXCEPT ![h] = IF d = "forward" THEN ~@ ELSE @]
           /\ fwd' = [fwd EXCEPT ![h] = IF d = "forward"
                                        THEN Append(@, <<s, message>>) ELSE @]
    /\ handled' = [handled EXCEPT ![h][s] =
                        IF logging /\ fpc[h][s] = "send"
                        THEN Append(@, fmsg[h][s]) ELSE @]
    /\ fpc' = [fpc EXCEPT ![h][s] = IF @ = "sendErr" THEN "closing" ELSE "read"]
    /\ fmsg' = [fmsg EXCEPT ![h][s] = NoMessage]
    /\ UNCHANGED <<hvars, rws, fws, closed, nReads, recvd, logging, broken, crashed>>

\* case message := <-whiteChannel / <-blackChannel: the unbuffered channel
\* hands over the message of the reader blocked in its send; that reader
\* goes on (to its next read, or to its deferred Close after the error).
RelayRecv(h, s) ==
    /\ ~crashed
    /\ rpc[h] = "loop"
    /\ fpc[h][s] \in {"send", "sendErr"}
    /\ LET message == fmsg[h][s]
           d == RelayDecision(h, s, message)
       IN  /\ rpc' = [rpc EXCEPT ![h] = IF d = "return" THEN "done" ELSE @]
           /\ written' = IF d = "forward"
                         THEN Sent(rws[h][Other(s)], message) ELSE written
           /\ turnWhite' = [turnWhite EXCEPT ![h] = IF d = "forward" THEN ~@ ELSE @]
           /\ fwd' = [fwd EXCEPT ![h] = IF d = "forward"
                                        THEN Append(@, <<s, message>>) ELSE @]
    /\ handled' = [handled EXCEPT ![h][s] =
                        IF logging /\ fpc[h][s] = "send"
                        THEN Append(@, fmsg[h][s]) ELSE @]
    /\ fpc' = [fpc EXCEPT ![h][s] = IF @ = "sendErr" THEN "closing" ELSE "read"]
    /\ fmsg' = [fmsg EXCEPT ![h][s] = NoMessage]
    /\ UNCHANGED <<hvars, rws, fws, closed, nReads, recvd, logging, broken, crashed>>

\* ----------------------------------------- forwardFromWebsocketToChannel
\* (mutant) the reader does not wait for its send: it reads the next frame
\* while the last message is still to be received by the select.
ReaderReadNoWait(h, s, frame) ==
    /\ ~crashed
    /\ fpc[h][s] \in {"read", "send"}
    /\ IF fws[h][s] = Nil
       THEN /\ crashed' = TRUE
            /\ UNCHANGED <<fpc, fmsg, nReads, recvd>>
       ELSE /\ crashed' = crashed
            /\ IF fws[h][s] \in closed \cup broken
               THEN /\ frame = BadFrame
                    /\ nReads' = nReads
               ELSE /\ nReads < MaxReads
                    /\ nReads' = nReads + 1
            /\ IF ReadJSONErr(frame)
               THEN /\ fmsg' = [fmsg EXCEPT ![h][s] = ErrorMessage]
                    /\ fpc' = [fpc EXCEPT ![h][s] = "sendErr"]
                    /\ recvd' = recvd
               ELSE /\ fmsg' = [fmsg EXCEPT ![h][s] = ReadJSON(frame)]
                    /\ fpc' = [fpc EXCEPT ![h][s] = "send"]
                    /\ recvd' = [recvd EXCEPT ![h][s] =
                                    IF logging THEN Append(@, ReadJSON(frame)) ELSE @]
    /\ UNCHANGED <<hvars, rvars, fws, closed, logging, broken>>

\* err := ws.ReadJSON(&message): the read fails (BadFrame: the channel broke
\* or the frame is malformed; always so once the connection was closed) or
\* the client's next frame is decoded. A nil ws panics in the goroutine: the
\* process ends.
\* if err != nil { ch <- Message{Type: "error"}; return }; ch <- message
ReaderRead(h, s, frame) ==
    /\ ~crashed
    /\ fpc[h][s] = "read"
    /\ IF fws[h][s] = Nil
       THEN /\ crashed' = TRUE
            /\ UNCHANGED <<fpc, fmsg, nReads, recvd>>
       ELSE /\ crashed' = crashed
            /\ IF fws[h][s] \in closed \cup broken
               THEN /\ frame = BadFrame
                    /\ nReads' = nReads
               ELSE /\ nReads < MaxReads
                    /\ nReads' = nReads + 1
            /\ IF ReadJSONErr(frame)
               THEN /\ fmsg' = [fmsg EXCEPT ![h][s] = ErrorMessage]
                    /\ fpc' = [fpc EXCEPT ![h][s] = "sendErr"]
                    /\ recvd' = recvd
               ELSE /\ fmsg' = [fmsg EXCEPT ![h][s] = ReadJSON(frame)]
                    /\ fpc' = [fpc EXCEPT ![h][s] = "send"]
                    /\ recvd' = [recvd EXCEPT ![h][s] =
                                    IF logging THEN Append(@, ReadJSON(frame)) ELSE @]
    /\ UNCHANGED <<hvars, rvars, fws, closed, logging, broken>>

\* The channel of the established connection c breaks: from now on every
\* read on it fails.
Break(c) ==
    /\ ~crashed
    /\ hws[c] = c
    /\ c \notin broken
    /\ broken' = broken \cup {c}
    /\ UNCHANGED <<hvars, rvars, fpc, fws, fmsg, closed, nReads, recvd, logging,
                   crashed>>

\* defer ws.Close(), run when the reader returns
ReaderClose(h, s) ==
    /\ ~crashed
    /\ fpc[h][s] = "closing"
    /\ closed' = closed \cup {fws[h][s]}
    /\ fpc' = [fpc EXCEPT ![h][s] = "closed"]
    /\ UNCHANGED <<hvars, rvars, fws, fmsg, nReads, recvd, logging, broken, crashed>>

\* -------------------------------------------------------- specifications
HandlerStep(h) ==
    \/ CheckGame(h)
    \/ NewGame(h)
    \/ \E reload \in BOOLEAN : CallJoin(h, reload)
    \/ JoinCheck(h)
    \/ JoinAssign(h)
    \/ GoPlayChess(h)
    \/ GoWhiteReader(h)
    \/ GoBlackReader(h)
    \/ ClearGame(h)

TaskStep(h) ==
    \/ StartWhite(h)
    \/ StartBlack(h)
    \/ \E s \in Sides : RelayRecv(h, s)
    \/ \E s \in Sides, frame \in ClientFrames : ReaderRead(h, s, frame)
    \/ \E s \in Sides : ReaderClose(h, s)

\* Requests served concurrently (net/http runs each handler in a goroutine).
Next ==
    \/ \E h \in Conns, ok \in BOOLEAN : UpgradeConc(h, ok)
    \/ \E h \in Conns : HandlerStep(h)
    \/ \E h \in Conns : TaskStep(h)

Spec == Init /\ [][Next]_vars

\* Requests served one after another.
NextSeq ==
    \/ \E h \in Conns, ok \in BOOLEAN : UpgradeSeq(h, ok)
    \/ \E h \in Conns : HandlerStep(h)
    \/ \E h \in Conns : TaskStep(h)

SpecSeq == Init /\ [][NextSeq]_vars

\* The same with every upgrade succeeding, and with the histories of what
\* the readers decoded recorded.
NextLogged ==
    \/ \E h \in Conns : UpgradeSeq(h, TRUE)
    \/ \E h \in Conns : HandlerStep(h)
    \/ \E h \in Conns : TaskStep(h)

SpecLogged == InitLogged /\ [][NextLogged]_vars

\* The accept path alone under every interleaving of concurrent requests: the
\* goroutines Join starts are not scheduled. playChess and the readers never
\* write the matchmaker's state (hvars), so every matchmaker state of Spec is
\* a state of SpecAccept.
NextAccept ==
    \/ \E h \in Conns, ok \in BOOLEAN : UpgradeConc(h, ok)
    \/ \E h \in Conns : HandlerStep(h)

SpecAccept == Init /\ [][NextAccept]_vars

\* A channel breaks while no request is being served.
BreakBetweenRequests(c) ==
    /\ InFlight = {}
    /\ Break(c)

\* The accept path with requests served one after another, while the
\* channels of established connections may break between two requests.
NextBreak ==
    \/ \E h \in Conns, ok \in BOOLEAN : UpgradeSeq(h, ok)
    \/ \E h \in Conns : HandlerStep(h)
    \/ \E c \in Conns : BreakBetweenRequests(c)

SpecBreak == Init /\ [][NextBreak]_vars

\* ------------------------------------------------------------ properties
Relays == {h \in Conns : rpc[h] # "none"}
InLoop(h) == rpc[h] = "loop"

\* Side s of relay h hands a message over to the select in this step.
Received(h, s) ==
    /\ rpc[h] = "loop"
    /\ fpc[h][s] \in {"send", "sendErr"}
    /\ fpc'[h][s] \notin {"send", "sendErr"}

SenderOf(i) == IF i % 2 = 1 THEN "white" ELSE "black"

\* C1 (turn alternation): the relay's turn starts at white; a message taken
\* from the side that does not hold the turn is not written to any
\* connection and leaves the turn as it is; a move taken from the side that
\* holds the turn is written to the other connection and flips the turn; so
\* the relayed messages alternate by sender side, white first.
C1_Alternates ==
    \A h \in Relays :
        /\ rpc[h] \in {"start", "start2"} => turnWhite[h] /\ fwd[h] = <<>>
        /\ \A i \in 1..Len(fwd[h]) : fwd[h][i][1] = SenderOf(i)
        /\ turnWhite[h] <=> (Len(fwd[h]) % 2 = 0)

C1_Step ==
    \A h \in Conns, s \in Sides :
        Received(h, s) =>
            /\ ~HoldsTurn(h, s) =>
                 written' = written /\ fwd' = fwd /\ turnWhite' = turnWhite
            /\ HoldsTurn(h, s) /\ fmsg[h][s].Type = "move" =>
                 /\ written' = Sent(rws[h][Other(s)], fmsg[h][s])
                 /\ fwd'[h] = Append(fwd[h], <<s, fmsg[h][s]>>)
                 /\ turnWhite'[h] = ~turnWhite[h]

C1_TurnAlternation == []C1_Alternates /\ [][C1_Step]_vars

\* A white move and then a black move were relayed and a third message,
\* sent out of turn, was dropped.
C1_Witness ==
    \E h \in Conns :
        /\ InLoop(h)
        /\ Len(fwd[h]) = 2
        /\ nReads = 3
        /\ \A s \in Sides : fpc[h][s] = "read"

\* The invocations whose connection is held for session g: in a slot of the
\* ChessGame, or as an argument of a goroutine that a Join on g started.
Members(g) ==
    {h \in Conns :
        /\ hws[h] # Nil
        /\ \/ hws[h] \in {games[g].white, games[g].black}
           \/ \E j \in Conns :
                /\ hg[j] = g
                /\ \/ rpc[j] # "none" /\ hws[h] \in {rws[j].white, rws[j].black}
                   \/ \E s \in Sides : fpc[j][s] # "none" /\ hws[h] = fws[j][s]}

Joined(h) == hpc[h] \in {"goPlay", "goWhite", "goBlack", "clear", "done"}

\* C2 (pairing invariant): with the requests served one after another, the
\* k-th session is created by request 2k-1, whose connection is its white
\* side, and joined by request 2k and by no other, whose connection becomes
\* its black side; a request that follows a completed pairing creates the
\* next session; no session ever has more than two member connections.
C2_PairingInOrder ==
    /\ \A g \in 1..Len(games) :
        /\ 2 * g - 1 \in Conns /\ hpc[2 * g - 1] = "done"
        /\ games[g].white = hws[2 * g - 1]
        /\ games[g].black # Nil => 2 * g \in Conns /\ games[g].black = hws[2 * g]
        /\ Members(g) \subseteq {2 * g - 1, 2 * g}
        /\ Cardinality(Members(g)) <= 2
    /\ \A h \in Conns :
        /\ h % 2 = 1 => hpc[h] \in {"idle", "check", "new", "done"}
        /\ h % 2 = 1 /\ hpc[h] = "done" => Len(games) >= (h + 1) \div 2
        /\ h % 2 = 0 => hpc[h] # "new" /\ jret[h] # "ErrCannotJoinStartedGame"
        /\ h % 2 = 0 /\ hpc[h] \notin {"idle", "check"} => hg[h] = h \div 2
        /\ h % 2 = 0 /\ Joined(h) => games[h \div 2].black = hws[h]
        /\ rpc[h] # "none" =>
             h % 2 = 0 /\ rws[h] = [white |-> hws[h - 1], black |-> hws[h]]
    /\ (\A h \in Conns : hpc[h] \in {"idle", "done"}) =>
            game = (IF arrived % 2 = 1 THEN (arrived + 1) \div 2 ELSE Nil)

\* Four connections have been served: 1 and 2 play one session, 3 and 4 the next.
C2_Witness ==
    /\ \A h \in 1..4 : hpc[h] = "done" /\ hws[h] = h
    /\ games = <<[white |-> 1, black |-> 2], [white |-> 3, black |-> 4]>>

\* ChessGame objects that are open: a waiting white side, no black side yet.
OpenSessions == {g \in 1..Len(games) : games[g].white # Nil /\ games[g].black = Nil}

\* C3 (one open session): under every interleaving of concurrent requests at
\* most one session is open at any time.
C3_AtMostOneOpen == Cardinality(OpenSessions) <= 1

WireStartMessage(color) == WriteJSON(StartMessage(color))

\* C4 (start broadcast): whatever has been written to a connection of a
\* session begins with the start message of its side, white for the
\* first-arrived connection and black for the second; the relay loop is
\* entered, and a first message relayed, only after both start messages.
C4_StartBroadcast ==
    \A h \in Relays :
        LET w == rws[h].white
            b == rws[h].black
        IN  w # Nil /\ b # Nil =>
              /\ w < b
              /\ written[w] # <<>> => written[w][1] = WireStartMessage("white")
              /\ written[b] # <<>> => written[b][1] = WireStartMessage("black")
              /\ written[b] # <<>> => written[w] # <<>>
              /\ rpc[h] \in {"loop", "done"} \/ fwd[h] # <<>>
                    \/ Len(written[w]) > 1 \/ Len(written[b]) > 1
                 => written[w] # <<>> /\ written[b] # <<>>

\* Both start messages were sent and then a move of white was relayed.
C4_Witness ==
    \E h \in Conns :
        /\ InLoop(h)
        /\ written[rws[h].white] = <<WireStartMessage("white")>>
        /\ written[rws[h].black] = <<WireStartMessage("black"), WriteJSON(ReadJSON(WireMove))>>

\* validate tags of Message for a move: from, to and promotion are required,
\* promotion is one of q r b k.
WellFormedMove(m) ==
    /\ m.Type = "move"
    /\ m.From # ""
    /\ m.To # ""
    /\ m.Promotion \in {"q", "r", "b", "k"}

\* C5 (malformed or non-move rejection): the relay writes a received message
\* to the other connection, and flips the turn, only if the message is a
\* well-formed move.
C5_OnlyWellFormedMoves ==
    [][\A h \in Conns, s \in Sides :
          Received(h, s) /\ (written' # written \/ turnWhite' # turnWhite)
              => WellFormedMove(fmsg[h][s])]_vars

\* C6 (no late forwarding): the step in which the relay loop takes the error
\* signal ends the loop and writes nothing; once the loop has ended it stays
\* ended and nothing more is written to either connection of the session.
C6_Step ==
    \A h \in Conns :
        /\ \A s \in Sides :
             Received(h, s) /\ fpc[h][s] = "sendErr" =>
                 rpc'[h] = "done" /\ written' = written
        /\ rpc[h] = "done" =>
             /\ rpc'[h] = "done"
             /\ \A s \in Sides :
                  rws[h][s] # Nil => written'[rws[h][s]] = written[rws[h][s]]

C6_NoLateForwarding == [][C6_Step]_vars

\* The loop has ended on white's broken channel while black's reader holds a
\* move that black sent afterwards, in its turn.
C6_Witness ==
    \E h \in Conns :
        /\ rpc[h] = "done"
        /\ fpc[h]["white"] \in {"closing", "closed"}
        /\ ~turnWhite[h]
        /\ fpc[h]["black"] = "send"
        /\ fmsg[h]["black"].Type = "move"

\* The relay of session h has ended and neither reader waits for its client
\* or is about to close: no goroutine of the session can take another step.
Quiescent(h) ==
    /\ rpc[h] = "done"
    /\ \A s \in Sides : fpc[h][s] \in {"send", "sendErr", "closed"}

\* C7 (disconnect releases both connections): when a broken channel has ended
\* a session and its goroutines have come to rest, both connections of the
\* session have been closed by their reader tasks.
C7_BothReleased ==
    \A h \in Conns : Quiescent(h) => \A s \in Sides : fws[h][s] \in closed

\* C8 (reader task error signal): a reader whose receive failed is never left
\* holding its error signal after the relay loop has gone: the signal is
\* observed by the loop, once, and the reader terminates.
C8_ErrorSignalObserved ==
    \A h \in Conns, s \in Sides : fpc[h][s] = "sendErr" => rpc[h] # "done"

\* C9 (full-session rejection): a Join whose session already has a black
\* side returns ErrCannotJoinStartedGame in the step that tests the slot, and
\* that step changes no ChessGame, no relay (its connections, its turn) and
\* no reader; a Join that returned the error has started no goroutine.
JoinOnFull(h) ==
    /\ hpc[h] = "joinCheck"
    /\ games[hg[h]].black # Nil
    /\ hpc'[h] # "joinCheck"

C9_Step ==
    \A h \in Conns :
        JoinOnFull(h) =>
            /\ jret'[h] = "ErrCannotJoinStartedGame"
            /\ hpc'[h] = "clear"
            /\ games' = games
            /\ rpc' = rpc /\ rws' = rws /\ turnWhite' = turnWhite
            /\ fpc' = fpc /\ fws' = fws

C9_Rejected ==
    \A h \in Conns :
        jret[h] = "ErrCannotJoinStartedGame" =>
            /\ hpc[h] \in {"clear", "done"}
            /\ rpc[h] = "none"
            /\ \A s \in Sides : fpc[h][s] = "none"

C9_FullSessionRejection == []C9_Rejected /\ [][C9_Step]_vars

\* Request 3 raced request 2 for session 1 and was turned away: the session
\* keeps connections 1 and 2 and the goroutines that request 2 started.
C9_Witness ==
    /\ jret[3] = "ErrCannotJoinStartedGame"
    /\ hws[3] = 3
    /\ games[1] = [white |-> 1, black |-> 2]
    /\ rpc[2] = "start" /\ rws[2] = games[1]
    /\ hpc[2] = "done"

StartsWritten(c) == {i \in 1..Len(written[c]) : written[c][i].type = "start"}

\* C10 (exactly one start per connection): of all the messages written to a
\* connection of a session whose loop has been entered, exactly one is of
\* kind start.
C10_ExactlyOneStart ==
    \A h \in Conns :
        rpc[h] \in {"loop", "done"} =>
            \A s \in Sides : Cardinality(StartsWritten(rws[h][s])) = 1

\* Invocation h has called Join (on the ChessGame hg[h]).
JoinCalled(h) ==
    /\ hg[h] # Nil
    /\ hpc[h] \in {"joinCheck", "joinAssign", "goPlay", "goWhite", "goBlack",
                   "clear", "done"}

JoinCallers(g) == {h \in Conns : JoinCalled(h) /\ hg[h] = g}

\* C11 (single pairing attempt): under every interleaving of concurrent
\* requests no session is the target of more than one Join call.
C11_SinglePairingAttempt ==
    \A g \in 1..Len(games) : Cardinality(JoinCallers(g)) <= 1

\* The relay loop of session h returns in this step.
SessionEnds(h) == rpc[h] = "loop" /\ rpc'[h] = "done"

\* A reader goroutine of the ended session h takes a step.
EndedSessionStep(h) == rpc[h] = "done" /\ fpc'[h] # fpc[h] /\ hpc' = hpc

\* The goroutines of every session but h are left as they are.
OthersUnchanged(h) ==
    \A j \in Conns \ {h} :
        /\ rpc'[j] = rpc[j] /\ rws'[j] = rws[j] /\ turnWhite'[j] = turnWhite[j]
        /\ fpc'[j] = fpc[j] /\ fws'[j] = fws[j] /\ fmsg'[j] = fmsg[j]
        /\ fwd'[j] = fwd[j]

\* C12 (session isolation): a step in which a session ends, a step of a
\* reader of an ended session, and a Join turned away by a full session
\* leave the slots of every ChessGame, the connections, turn and goroutines
\* of every other session and the process as they are; the end of a session
\* leaves the whole state of the matchmaker (the global game, every
\* invocation of wsHandler) as it is, so later requests are served as before.
C12_Step ==
    \A h \in Conns :
        /\ SessionEnds(h) \/ EndedSessionStep(h) \/ JoinOnFull(h) =>
              /\ OthersUnchanged(h)
              /\ games' = games
              /\ crashed' = crashed
        /\ SessionEnds(h) \/ EndedSessionStep(h) => hvars' = hvars

C13_EndsOnlyOnFailedReceive ==
    [][\A h \in Conns, s \in Sides :
          Received(h, s) /\ SessionEnds(h) => fpc[h][s] = "sendErr"]_vars

\* The Join calls on ChessGame g that have assigned its black slot, and
\* those that have started a playChess goroutine.
BlackAssigners(g) ==
    {h \in JoinCallers(g) : hpc[h] = "goPlay" \/ rpc[h] # "none"}
RelaysOf(g) == {h \in JoinCallers(g) : rpc[h] # "none"}

\* C14 (a session becomes active exactly once): under every interleaving of
\* Join calls on one session its black slot is assigned at most once and at
\* most one relay, with at most one reader per connection, is started.
C14_ActivatedOnce ==
    \A g \in 1..Len(games) :
        /\ Cardinality(BlackAssigners(g)) <= 1
        /\ Cardinality(RelaysOf(g)) <= 1
        /\ \A s \in Sides :
             Cardinality({h \in JoinCallers(g) : fpc[h][s] # "none"}) <= 1

RECURSIVE IsSubseq(_, _)
\* a is b with some of its elements left out.
IsSubseq(a, b) ==
    IF a = <<>> THEN TRUE
    ELSE IF b = <<>> THEN FALSE
    ELSE IF Head(a) = Head(b) THEN IsSubseq(Tail(a), Tail(b))
    ELSE IsSubseq(a, Tail(b))

IsPrefix(a, b) == Len(a) <= Len(b) /\ SubSeq(b, 1, Len(a)) = a

RECURSIVE ForwardedFrom(_, _)
\* The messages of side s among the relayed messages f, in order.
ForwardedFrom(f, s) ==
    IF f = <<>> THEN <<>>
    ELSE IF Head(f)[1] = s THEN <<Head(f)[2]>> \o ForwardedFrom(Tail(f), s)
    ELSE ForwardedFrom(Tail(f), s)

\* C15 (per-connection order): what the relay has received from a reader is
\* a prefix of what that reader decoded from its connection, the one message
\* not yet received being the one the reader is sending; the messages
\* relayed from one side are, in order, some of the messages of that side
\* that the relay received.
C15_PerConnectionOrder ==
    \A h \in Relays, s \in Sides :
        /\ IsPrefix(handled[h][s], recvd[h][s])
        /\ Len(recvd[h][s]) =
              Len(handled[h][s]) + (IF fpc[h][s] = "send" THEN 1 ELSE 0)
        /\ fpc[h][s] = "send" => fmsg[h][s] = recvd[h][s][Len(recvd[h][s])]
        /\ IsSubseq(ForwardedFrom(fwd[h], s), handled[h][s])

\* White sent three different messages: the relay received all three in that
\* order, relayed the first and discarded the two sent out of turn.
C15_Witness ==
    \E h \in Conns :
        /\ InLoop(h)
        /\ recvd[h]["white"] =
              <<ReadJSON(WireMove), ReadJSON(WireStart), ReadJSON(WireMoveNoTo)>>
        /\ handled[h]["white"] = recvd[h]["white"]
        /\ fwd[h] = << <<"white", ReadJSON(WireMove)>> >>

\* The JSON objects ws as the Message values a client decodes from them.
AsMessages(ws) ==
    [i \in 1..Len(ws) |->
        Message(ws[i].type, ws[i].color, ws[i].from, ws[i].to, ws[i].promotion)]

\* C16 (verbatim forwarding): what the relay has written to a connection
\* after the start message is, field by field and in order, some of the
\* messages that the reader of the other connection decoded, each written at
\* most once.
C16_VerbatimForwarding ==
    \A h \in Relays, s \in Sides :
        LET c == rws[h][Other(s)]
        IN  c # Nil /\ written[c] # <<>> =>
                IsSubseq(AsMessages(Tail(written[c])), recvd[h][s])

\* White's move and black's move without a target square were relayed as
\* they were sent, and a second message of black was not.
C16_Witness ==
    \E h \in Conns :
        /\ InLoop(h)
        /\ written[rws[h].black] =
              <<WireStartMessage("black"), WireMove>>
        /\ written[rws[h].white] =
              <<WireStartMessage("white"),
                [type |-> "move", color |-> "", from |-> "e7", to |-> "",
                 promotion |-> "q"]>>
        /\ Len(handled[h]["black"]) = 2

\* C17 (a waiting player is never dropped): under every interleaving of
\* concurrent requests the session recorded in the global game is replaced
\* or cleared only when a Join has been called on that session.
C17_WaitingNeverDropped ==
    [][game # Nil /\ game' # game => JoinCallers(game) # {}]_vars

\* C18 (a failed upgrade is never paired): the nil connection of a failed
\* upgrade is never stored as the white side of a ChessGame nor assigned as
\* its black side, and no playChess or reader goroutine is started on it.
C18_NoNilConnection ==
    /\ \A g \in 1..Len(games) :
        /\ games[g].white # Nil
        /\ BlackAssigners(g) # {} => games[g].black # Nil
    /\ \A h \in Relays : rws[h].white # Nil /\ rws[h].black # Nil
    /\ \A h \in Conns, s \in Sides : fpc[h][s] # "none" => fws[h][s] # Nil

\* C19 (a broken waiting connection is never paired): no Join is called on a
\* session whose white connection has broken, and the global game never
\* refers to such a session when a request tests it.
C19_Step ==
    \A h \in Conns :
        /\ hpc[h] = "call" /\ hpc'[h] = "joinCheck" =>
              games[hg'[h]].white \notin broken
        /\ hpc[h] = "check" /\ hpc'[h] # "check" /\ game # Nil =>
              games[game].white \notin broken

C19_BrokenWaitingNotPaired == [][C19_Step]_vars

\* No read of session h has failed: neither of its channels has broken.
NoChannelBroken(h) ==
    \A s \in Sides :
        /\ fpc[h][s] \notin {"sendErr", "closing", "closed"}
        /\ fws[h][s] \notin closed \cup broken

\* Reader s of session h is sending a move of the side that holds the turn.
MoveInTurnPending(h, s) ==
    /\ fpc[h][s] = "send"
    /\ fmsg[h][s].Type = "move"
    /\ HoldsTurn(h, s)

\* C20 (implicit liveness): in an active session in which neither channel
\* has broken, while the reader of the side holding the turn is sending a
\* move the relay loop does not return, whatever the other side sends out of
\* turn, and the step that receives the move writes it to the other
\* connection; so under fair scheduling the move is eventually forwarded.
C20_Step ==
    \A h \in Conns, s \in Sides :
        InLoop(h) /\ NoChannelBroken(h) /\ MoveInTurnPending(h, s) =>
            /\ rpc'[h] = "loop"
            /\ fpc'[h][s] # "send" =>
                 written' = Sent(rws[h][Other(s)], fmsg[h][s])

C20_InTurnMoveForwarded == [][C20_Step]_vars

====
